---- MODULE Spec2Model ----
(***************************************************************************)
(* A model of monitor_v2.py: the peer monitor loop (monitor_peers), the   *)
(* MongoDB collections it shares with other monitor instances, and the    *)
(* Slack notifier it calls.                                               *)
(*                                                                         *)
(* Time is counted in seconds.  A datetime is a number of seconds, and    *)
(* the None of last_alert_sent_at is the number None below.  Every await   *)
(* asyncio.sleep(d) lets at least d seconds pass: the sleeper holds a      *)
(* timer of d seconds that the passing of time counts down, and goes on    *)
(* once it is at 0.  Time passes while some instance sleeps; an instance   *)
(* that is not asleep may take any time over its next step.                *)
(***************************************************************************)
EXTENDS Integers, Sequences, FiniteSets, TLC

VARIABLES
    TARGETS,    \* the parsed TARGETS list, fixed for the process lifetime
    running,    \* the monitor instances that run against the shared store
    faults,     \* whether store operations may raise PyMongoError
    tick_limit, \* the bound on the iterations of the while loop
    steps,      \* by how much the clock may move at once
    flaky,      \* the peers whose health endpoint may fail to answer
    db_ok,      \* per instance: active_collection is not None
    now,        \* the wall clock, datetime.now(timezone.utc), in seconds
    crashes,    \* the collection "crashes": _id (peer ip) -> document
    history,    \* the collection "crash_history": a set of documents
    mon,        \* per instance: the locals of monitor_peers and its position
    slack,      \* the messages handed to send_slack_alert by the last step
    calls,      \* the calls the last step made to ping_peer,
                \* check_external_connectivity and logger.error, in order
    store_up    \* whether the MongoDB server can be reached

vars == <<TARGETS, running, faults, tick_limit, steps, flaky, db_ok, now, crashes, history, mon, slack, calls, store_up>>

----------------------------------------------------------------------------
(* Configuration, lines 43-51 *)

CONFIRMATION_DELAY_MINUTES == 3
REMINDER_INTERVAL_HOURS == 2
MAX_RETRIES == 3
INITIAL_BACKOFF_SECONDS == 10
LOOP_SLEEP_SECONDS == 30
WARMUP_SECONDS == 5
NOISE_FILTER_MINUTES == 1
None == -1

(* Bounds of the model *)
\* Iterations of the while loop per instance, alone and with a second one.
MaxTicks == 3
MaxTicksMulti == 2

\* By how much the clock moves at once.  Every sleep of the program is over
\* after the shortest; the longest added to the shortest is
\* REMINDER_INTERVAL_HOURS exactly.
Steps == {30, 150, 7170}
StepsMulti == {90}

\* Two instances and reminders: two steps of the clock are
\* REMINDER_INTERVAL_HOURS exactly, three are more.
MaxTicksRace == 2
StepsRace == {3600}

\* One instance under fair scheduling: the clock in steps of the sleeps of
\* the program, and the ticks that 3 minutes of them take.
MaxTicksLive == 5
StepsLive == {30}

Instances == {"mon-a", "mon-b"}

NodeB == [ip |-> "10.0.0.2", name |-> "node-b"]
NodeC == [ip |-> "10.0.0.3", name |-> "node-c"]
AllIPs == {NodeB.ip, NodeC.ip}
TargetConfigs == {<<>>, <<NodeB>>, <<NodeB, NodeC>>}

TargetIPs(targets) == {targets[k].ip : k \in 1..Len(targets)}

----------------------------------------------------------------------------
(* Documents *)

\* What find_one returns when no document matches: None.
NoDoc ==
    [status |-> "absent", target_name |-> "", down_since |-> None,
     last_alert_sent_at |-> None, witnesses |-> {}]

\* A bug: down_since among the $set fields.
UpsertDown_Overwrites(doc, target_name, current_time, server_id) ==
    [status |-> "down", target_name |-> target_name,
     down_since |-> current_time,
     last_alert_sent_at |-> doc.last_alert_sent_at,
     witnesses |-> doc.witnesses \cup {server_id}]

\* A bug: witnesses among the $set fields.
UpsertDown_LastWitness(doc, target_name, current_time, server_id) ==
    [status |-> "down", target_name |-> target_name,
     down_since |-> IF doc.status = "absent" THEN current_time
                    ELSE doc.down_since,
     last_alert_sent_at |-> doc.last_alert_sent_at,
     witnesses |-> {server_id}]

\* update_one(..., upsert=True) of the crash logic: $set status and
\* target_name, $setOnInsert down_since and last_alert_sent_at, $addToSet
\* witnesses.
UpsertDown(doc, target_name, current_time, server_id) ==
    IF doc = NoDoc
    THEN [status |-> "down", target_name |-> target_name,
          down_since |-> current_time, last_alert_sent_at |-> None,
          witnesses |-> {server_id}]
    ELSE [doc EXCEPT !.status = "down", !.target_name = target_name,
                     !.witnesses = @ \cup {server_id}]

\* A bug: the alert without the write.
SetLastAlert_Dropped(doc, t) == doc

\* update_one({"_id": ip}, {"$set": {"last_alert_sent_at": t}}): no upsert,
\* so nothing happens when no document matches.
SetLastAlert(doc, t) ==
    IF doc = NoDoc THEN NoDoc ELSE [doc EXCEPT !.last_alert_sent_at = t]

\* The key of a history document: ip and recovered_at to the second.
ArchiveId(ip, recovered_at) == <<ip, recovered_at>>

\* A bug: the copy's down_since replaced as well.
ArchiveRecord_Restamped(crash_record, ip, recovered_at) ==
    [id |-> ArchiveId(ip, recovered_at), status |-> "resolved",
     target_name |-> crash_record.target_name,
     down_since |-> recovered_at,
     last_alert_sent_at |-> crash_record.last_alert_sent_at,
     witnesses |-> crash_record.witnesses,
     recovered_at |-> recovered_at]

\* crash_record.copy() with status, recovered_at and _id replaced.
ArchiveRecord(crash_record, ip, recovered_at) ==
    [id |-> ArchiveId(ip, recovered_at), status |-> "resolved",
     target_name |-> crash_record.target_name,
     down_since |-> crash_record.down_since,
     last_alert_sent_at |-> crash_record.last_alert_sent_at,
     witnesses |-> crash_record.witnesses,
     recovered_at |-> recovered_at]

----------------------------------------------------------------------------
(* Arithmetic of the alert timing *)

\* int(x / y) of Python for y > 0: truncation toward zero.
TruncDiv(x, y) == IF x >= 0 THEN x \div y ELSE -((-x) \div y)

\* duration_mins = int((recovered_at - down_since).total_seconds() / 60)
DurationMins(down_since, recovered_at) == TruncDiv(recovered_at - down_since, 60)

\* A bug: the filter set in hours.
PassesNoiseFilter_Hours(duration_mins) == duration_mins >= NOISE_FILTER_MINUTES * 60

\* A bug: > for >=.
PassesNoiseFilter_Strict(duration_mins) == duration_mins > NOISE_FILTER_MINUTES

\* duration_mins >= 1, the noise filter
PassesNoiseFilter(duration_mins) == duration_mins >= NOISE_FILTER_MINUTES

\* time_down = (current_time - down_since).total_seconds() / 60, kept in
\* seconds: time_down >= CONFIRMATION_DELAY_MINUTES compares a float number
\* of minutes, which is the comparison of the seconds with 60 times as much.
TimeDownSeconds(down_since, current_time) == current_time - down_since

\* A bug: no delay is ever long enough.
ConfirmationElapsed_Never(seconds) == FALSE

\* A bug: > for >=.
ConfirmationElapsed_Strict(seconds) == seconds > CONFIRMATION_DELAY_MINUTES * 60

ConfirmationElapsed(seconds) == seconds >= CONFIRMATION_DELAY_MINUTES * 60

\* A bug: >= for >.
ShouldAlert_AtInterval(last_alert, current_time) ==
    IF last_alert = None
    THEN TRUE
    ELSE current_time - last_alert >= REMINDER_INTERVAL_HOURS * 3600

\* A bug: an alert whatever last_alert_sent_at is.
ShouldAlert_Always(last_alert, current_time) == TRUE

\* should_alert, lines 223-227
ShouldAlert(last_alert, current_time) ==
    IF last_alert = None
    THEN TRUE
    ELSE current_time - last_alert > REMINDER_INTERVAL_HOURS * 3600

----------------------------------------------------------------------------
(* Messages handed to send_slack_alert *)

Message(kind, reminder, name, ip, mins, witnesses) ==
    [kind |-> kind, reminder |-> reminder, name |-> name, ip |-> ip,
     mins |-> mins, witnesses |-> witnesses]

IsolatedMsg(server_id) == Message("ISOLATED", FALSE, server_id, "", 0, {})
ReconnectedMsg(server_id) == Message("RECONNECTED", FALSE, server_id, "", 0, {})
RecoveryMsg(target, duration_mins) ==
    Message("RECOVERY", FALSE, target.name, target.ip, duration_mins, {})
\* A bug: the ip where the name belongs.
CrashMsg_Unnamed(target, time_down, last_alert, witnesses) ==
    Message("CRASH", last_alert # None, target.ip, target.ip,
            TruncDiv(time_down, 60), witnesses)

\* "if last_alert: msg = REMINDER + msg": a datetime is always true.
CrashMsg(target, time_down, last_alert, witnesses) ==
    Message("CRASH", last_alert # None, target.name, target.ip,
            TruncDiv(time_down, 60), witnesses)

----------------------------------------------------------------------------
(* The isolation detector *)

\* peer_results.get(ip, False)
Get(results, ip) == IF ip \in DOMAIN results THEN results[ip] ELSE FALSE

SuccessfulPingsCount(targets, results) ==
    Cardinality({k \in 1..Len(targets) : results[targets[k].ip]})

\* is_isolated = (len(TARGETS) > 0 and successful_pings_count == 0)
IsIsolated(targets, results) ==
    Len(targets) > 0 /\ SuccessfulPingsCount(targets, results) = 0

\* A bug: "and not was_isolated" forgotten in the first test.
IsolationBranch_Realerts(is_isolated, was_isolated) ==
    IF is_isolated THEN "enter"
    ELSE IF was_isolated THEN "recover"
    ELSE "normal"

\* The if / elif chain of lines 123-144.
IsolationBranch(is_isolated, was_isolated) ==
    IF is_isolated /\ ~was_isolated THEN "enter"
    ELSE IF is_isolated /\ was_isolated THEN "still"
    ELSE IF ~is_isolated /\ was_isolated THEN "recover"
    ELSE "normal"

\* A bug: no "continue" after the isolation alert.
ShortCircuits_OnlyStill(branch) == branch = "still"

\* Whether a branch ends the tick with "continue".
ShortCircuits(branch) == branch \in {"enter", "still"}

\* A bug: was_isolated not cleared on recovering.
WasIsolatedAfter_NeverCleared(branch, was_isolated) ==
    CASE branch = "enter" -> TRUE
      [] OTHER -> was_isolated

\* was_isolated after the branch: set on entering, cleared on recovering.
WasIsolatedAfter(branch, was_isolated) ==
    CASE branch = "enter" -> TRUE
      [] branch = "recover" -> FALSE
      [] OTHER -> was_isolated

\* A bug: no break on the first answer.
RetryLoop_NoBreak(pings, attempt) ==
    <<\E k \in 1..MAX_RETRIES : pings[k], MAX_RETRIES>>

\* The retry loop of lines 161-167 against the answers pings[1..MAX_RETRIES]
\* the target would give: <<is_alive, the number of pings made>>.
RECURSIVE RetryLoop(_, _)
RetryLoop(pings, attempt) ==
    IF attempt >= MAX_RETRIES THEN <<FALSE, attempt>>
    ELSE IF pings[attempt + 1] THEN <<TRUE, attempt + 1>>
    ELSE RetryLoop(pings, attempt + 1)

----------------------------------------------------------------------------
(* The calls a step makes to the helpers, as the variable calls keeps them *)

\* await ping_peer(url) for the peer at ip answered alive.
Pinged(ip, alive) == [fn |-> "ping_peer", ip |-> ip, ret |-> alive]

\* await check_external_connectivity() answered online.
Checked(online) ==
    [fn |-> "check_external_connectivity", ip |-> "", ret |-> online]

\* logger.error(f"Error processing {target_name}: {e}"), line 246
Logged(ip) == [fn |-> "logger.error", ip |-> ip, ret |-> FALSE]

----------------------------------------------------------------------------
(* The state of one monitor_peers coroutine *)

InitMon(targets) ==
    [pc |-> "warmup", timer |-> 0, ticks |-> 0, was_isolated |-> FALSE,
     is_isolated |-> FALSE,
     peer_results |-> [ip \in TargetIPs(targets) |-> FALSE],
     idx |-> 0, is_alive |-> FALSE, attempt |-> 0,
     crash_doc |-> NoDoc, current_time |-> None, recovered_at |-> None,
     msg |-> <<>>]

\* The locals of one target's iteration, dead once the iteration ends.
ClearPeer(m) ==
    [m EXCEPT !.is_alive = FALSE, !.attempt = 0, !.crash_doc = NoDoc,
              !.current_time = None, !.recovered_at = None, !.msg = <<>>]

\* The for loop of line 147 moves to the next target.
NextPeer(m) == [ClearPeer(m) EXCEPT !.pc = "peer", !.idx = @ + 1]

Target(i) == TARGETS[mon[i].idx]

\* await asyncio.sleep(d)
Sleep(m, d) == [m EXCEPT !.timer = d]

Awake(i) == i \in running /\ mon[i].timer = 0

Max(a, b) == IF a >= b THEN a ELSE b

----------------------------------------------------------------------------
(* The monitor loop, one action per stretch of monitor_peers between two   *)
(* points where another instance's store operation or the clock can come   *)
(* in between.                                                             *)

Set(i, m) == mon' = [mon EXCEPT ![i] = m]

Config == <<TARGETS, running, faults, tick_limit, steps, flaky, db_ok>>

\* Time passes while some instance sleeps.
Tick ==
    /\ \E i \in running : mon[i].timer > 0
    /\ \E step \in steps :
        /\ now' = now + step
        /\ mon' = [i \in Instances |->
                     [mon[i] EXCEPT !.timer = Max(0, @ - step)]]
    /\ slack' = <<>>
    /\ calls' = <<>>
    /\ UNCHANGED <<Config, store_up, crashes, history>>

\* await asyncio.sleep(5), line 89
Warmup(i) ==
    /\ Awake(i)
    /\ mon[i].pc = "warmup"
    /\ Set(i, Sleep([mon[i] EXCEPT !.pc = "top"], WARMUP_SECONDS))
    /\ slack' = <<>>
    /\ calls' = <<>>
    /\ UNCHANGED <<Config, store_up, now, crashes, history>>

\* The global safety checks of lines 97-105: no store, or no internet
\* (check_external_connectivity answers either way), sleeps and starts over.
Top(i) ==
    /\ mon[i].pc = "top"
    /\ Awake(i)
    /\ mon[i].ticks < tick_limit
    /\ slack' = <<>>
    /\ IF ~db_ok[i]
       THEN /\ calls' = <<>>
            /\ Set(i, Sleep([mon[i] EXCEPT !.ticks = @ + 1], LOOP_SLEEP_SECONDS))
       ELSE \E online \in BOOLEAN :
            /\ calls' = <<Checked(online)>>
            /\ IF online
               THEN Set(i, [mon[i] EXCEPT !.pc = "scan", !.ticks = @ + 1])
               ELSE Set(i, Sleep([mon[i] EXCEPT !.ticks = @ + 1],
                                 LOOP_SLEEP_SECONDS))
    /\ UNCHANGED <<Config, store_up, now, crashes, history>>

\* The alert of an isolation branch, lines 126-129 and 143.
ScanAlert(branch, server_id) ==
    CASE branch = "enter" -> <<IsolatedMsg(server_id)>>
      [] branch = "recover" -> <<ReconnectedMsg(server_id)>>
      [] OTHER -> <<>>

\* What ping_peer may answer for each target in one scan, lines 112-117.
ScanResults(targets, may_fail) ==
    {r \in [TargetIPs(targets) -> BOOLEAN] :
        \A ip \in TargetIPs(targets) \ may_fail : r[ip]}

\* The scan of all targets and the isolation state machine, lines 108-144.
Scan(i) ==
    /\ Awake(i)
    /\ mon[i].pc = "scan"
    /\ \E results \in ScanResults(TARGETS, flaky) :
        LET is_isolated == IsIsolated(TARGETS, results)
            branch == IsolationBranch(is_isolated, mon[i].was_isolated)
            m == [mon[i] EXCEPT
                    !.peer_results = results,
                    !.is_isolated = is_isolated,
                    !.was_isolated = WasIsolatedAfter(branch, @)]
        IN  /\ slack' = ScanAlert(branch, i)
            /\ calls' = [k \in 1..Len(TARGETS) |->
                            Pinged(TARGETS[k].ip, results[TARGETS[k].ip])]
            /\ IF ShortCircuits(branch)
               THEN Set(i, Sleep([m EXCEPT !.pc = "top"], LOOP_SLEEP_SECONDS))
               ELSE Set(i, [m EXCEPT !.pc = "peer", !.idx = 1])
    /\ UNCHANGED <<Config, store_up, now, crashes, history>>

\* A bug: the first retry whatever the re-check says.
RecheckAborts_Never(online) == FALSE

\* "if not await check_external_connectivity(): continue", lines 157-158
RecheckAborts(online) == ~online

\* The head of one target's iteration, lines 147-160: the scan's result is
\* taken; a target that failed it is retried unless the internet is gone.
PeerStart(i) ==
    /\ Awake(i)
    /\ mon[i].pc = "peer"
    /\ mon[i].idx <= Len(TARGETS)
    /\ slack' = <<>>
    /\ IF Get(mon[i].peer_results, Target(i).ip)
       THEN /\ calls' = <<>>
            /\ Set(i, [mon[i] EXCEPT !.pc = "process", !.is_alive = TRUE])
       ELSE \E online \in BOOLEAN :
            /\ calls' = <<Checked(online)>>
            /\ IF RecheckAborts(online)
               THEN Set(i, NextPeer(mon[i]))
               ELSE Set(i, [mon[i] EXCEPT !.pc = "retry"])
    /\ UNCHANGED <<Config, store_up, now, crashes, history>>

\* The retry loop, lines 161-167: a backoff before every ping it makes.
Retry(i) ==
    /\ Awake(i)
    /\ mon[i].pc = "retry"
    /\ slack' = <<>>
    /\ \E pings \in [1..MAX_RETRIES -> BOOLEAN] :
        LET r == RetryLoop(pings, 0)
        IN  /\ Set(i, Sleep([mon[i] EXCEPT !.pc = "process", !.is_alive = r[1],
                                           !.attempt = r[2]],
                            INITIAL_BACKOFF_SECONDS * r[2]))
            /\ calls' = [k \in 1..r[2] |-> Pinged(Target(i).ip, pings[k])]
    /\ UNCHANGED <<Config, store_up, now, crashes, history>>

\* A bug: the exception leaves monitor_peers, and the task ends with it.
Caught_Reraised(m) == [m EXCEPT !.pc = "failed"]

\* "except Exception as e", lines 245-246: the for loop goes on with the
\* next target.
Caught(m) == NextPeer(m)

\* A store operation raises: the except of line 245 logs it.
Raises(i) ==
    /\ faults
    /\ Set(i, Caught(mon[i]))
    /\ slack' = <<>>
    /\ calls' = <<Logged(Target(i).ip)>>
    /\ UNCHANGED <<Config, store_up, now, crashes, history>>

\* Recovery logic, lines 172-176: find_one, and the clock read after it.
FindRecord(i) ==
    /\ mon[i].pc = "process"
    /\ Awake(i)
    /\ mon[i].is_alive
    /\ \/ Raises(i)
       \/ /\ LET crash_record == crashes[Target(i).ip]
             IN  IF crash_record = NoDoc
                 THEN Set(i, NextPeer(mon[i]))
                 ELSE Set(i, [mon[i] EXCEPT !.pc = "delete",
                                            !.crash_doc = crash_record,
                                            !.recovered_at = now])
          /\ slack' = <<>>
          /\ calls' = <<>>
          /\ UNCHANGED <<Config, store_up, now, crashes, history>>

\* The iteration's duration_mins, from its crash_record and recovered_at.
Duration(i) == DurationMins(mon[i].crash_doc.down_since, mon[i].recovered_at)

\* delete_one and the noise filter, lines 178-181 and 193-194.
DeleteRecord(i) ==
    /\ Awake(i)
    /\ mon[i].pc = "delete"
    /\ \/ Raises(i)
       \/ /\ crashes' = [crashes EXCEPT ![Target(i).ip] = NoDoc]
          /\ IF PassesNoiseFilter(Duration(i))
             THEN Set(i, [mon[i] EXCEPT !.pc = "archive"])
             ELSE Set(i, NextPeer(mon[i]))
          /\ slack' = <<>>
          /\ calls' = <<>>
          /\ UNCHANGED <<Config, store_up, now, history>>

\* insert_one of the archive record, lines 182-188; a document with the
\* same _id makes it raise DuplicateKeyError.
Archive(i) ==
    /\ Awake(i)
    /\ mon[i].pc = "archive"
    /\ LET rec == ArchiveRecord(mon[i].crash_doc, Target(i).ip,
                                mon[i].recovered_at)
       IN  \/ Raises(i)
           \/ /\ \E h \in history : h.id = rec.id
              /\ Set(i, Caught(mon[i]))
              /\ slack' = <<>>
              /\ calls' = <<Logged(Target(i).ip)>>
              /\ UNCHANGED <<Config, store_up, now, crashes, history>>
           \/ /\ \A h \in history : h.id # rec.id
              /\ history' = history \cup {rec}
              /\ Set(i, [mon[i] EXCEPT !.pc = "alert",
                            !.msg = <<RecoveryMsg(Target(i), Duration(i))>>])
              /\ slack' = <<>>
              /\ calls' = <<>>
              /\ UNCHANGED <<Config, store_up, now, crashes>>

\* Crash logic, lines 198-211: the clock read and the upsert.
Upsert(i) ==
    /\ mon[i].pc = "process"
    /\ Awake(i)
    /\ ~mon[i].is_alive
    /\ \/ Raises(i)
       \/ /\ crashes' = [crashes EXCEPT ![Target(i).ip] =
                            UpsertDown(@, Target(i).name, now, i)]
          /\ Set(i, [mon[i] EXCEPT !.pc = "reread", !.current_time = now])
          /\ slack' = <<>>
          /\ calls' = <<>>
          /\ UNCHANGED <<Config, store_up, now, history>>

\* Whether the document read back calls for an alert now, lines 220-229.
AlertDue(crash_doc, current_time) ==
    /\ ConfirmationElapsed(TimeDownSeconds(crash_doc.down_since, current_time))
    /\ ShouldAlert(crash_doc.last_alert_sent_at, current_time)

\* The re-read and the alert timing, lines 214-238.
Reread(i) ==
    /\ Awake(i)
    /\ mon[i].pc = "reread"
    /\ \/ Raises(i)
       \/ /\ LET crash_doc == crashes[Target(i).ip]
             IN  IF crash_doc # NoDoc /\ AlertDue(crash_doc, mon[i].current_time)
                 THEN Set(i, [mon[i] EXCEPT !.pc = "mark",
                                            !.crash_doc = crash_doc])
                 ELSE Set(i, NextPeer(mon[i]))
          /\ slack' = <<>>
          /\ calls' = <<>>
          /\ UNCHANGED <<Config, store_up, now, crashes, history>>

\* The write of last_alert_sent_at before the alert, lines 239-242.
MarkAlert(i) ==
    /\ Awake(i)
    /\ mon[i].pc = "mark"
    /\ \/ Raises(i)
       \/ /\ crashes' = [crashes EXCEPT ![Target(i).ip] =
                            SetLastAlert(@, mon[i].current_time)]
          /\ Set(i, [mon[i] EXCEPT !.pc = "alert",
                        !.msg = <<CrashMsg(Target(i),
                                    TimeDownSeconds(mon[i].crash_doc.down_since,
                                                    mon[i].current_time),
                                    mon[i].crash_doc.last_alert_sent_at,
                                    mon[i].crash_doc.witnesses)>>])
          /\ slack' = <<>>
          /\ calls' = <<>>
          /\ UNCHANGED <<Config, store_up, now, history>>

\* await send_slack_alert(msg), lines 189 and 243; the iteration ends.
Dispatch(i) ==
    /\ Awake(i)
    /\ mon[i].pc = "alert"
    /\ slack' = mon[i].msg
    /\ calls' = <<>>
    /\ Set(i, NextPeer(mon[i]))
    /\ UNCHANGED <<Config, store_up, now, crashes, history>>

\* All targets done: await asyncio.sleep(30), line 248.
LoopEnd(i) ==
    /\ Awake(i)
    /\ mon[i].pc = "peer"
    /\ mon[i].idx > Len(TARGETS)
    /\ slack' = <<>>
    /\ calls' = <<>>
    /\ Set(i, Sleep([ClearPeer(mon[i]) EXCEPT !.pc = "top", !.idx = 0,
                        !.peer_results = [ip \in TargetIPs(TARGETS) |-> FALSE]],
                    LOOP_SLEEP_SECONDS))
    /\ UNCHANGED <<Config, store_up, now, crashes, history>>

\* A bug: an await between the store operations of one iteration.
SuspensionPoints_Anywhere ==
    {"warmup", "top", "scan", "peer", "retry", "process", "alert",
     "delete", "archive", "reread", "mark"}

\* The positions at which the coroutine is, or has last been, suspended in
\* an await: the sleeps, the probes, the connectivity checks and the alert
\* dispatch.  Between find_one / delete_one / insert_one and between the
\* upsert, the re-read and the alert update there is no await.
SuspensionPoints ==
    {"warmup", "top", "scan", "peer", "retry", "process", "alert"}

\* monitor_task.cancel(), line 267: CancelledError is raised in the await the
\* coroutine is suspended in.  It is no Exception: the except of line 245 and
\* the one of send_slack_alert let it pass, and the task ends.  The bare
\* except of ping_peer and of check_external_connectivity catches it: the
\* call then answers False, which is one of the answers Scan, Retry, Top and
\* PeerStart draw in any case, and the task is ended at a later await.
Cancel(i) ==
    /\ i \in running
    /\ mon[i].pc \in SuspensionPoints
    /\ Set(i, [mon[i] EXCEPT !.pc = "cancelled", !.timer = 0])
    /\ slack' = <<>>
    /\ calls' = <<>>
    /\ UNCHANGED <<Config, store_up, now, crashes, history>>

\* The MongoDB server becomes reachable.  Nothing in the program looks: the
\* only MongoClient(...) is the one of lifespan, lines 254-263.
StoreRestored ==
    /\ ~store_up
    /\ store_up' = TRUE
    /\ slack' = <<>>
    /\ calls' = <<>>
    /\ UNCHANGED <<Config, now, crashes, history, mon>>

Step(i) ==
    \/ Warmup(i)
    \/ Top(i)
    \/ Scan(i)
    \/ PeerStart(i)
    \/ Retry(i)
    \/ FindRecord(i)
    \/ DeleteRecord(i)
    \/ Archive(i)
    \/ Upsert(i)
    \/ Reread(i)
    \/ MarkAlert(i)
    \/ Dispatch(i)
    \/ LoopEnd(i)
    \/ Cancel(i)

Next == Tick \/ StoreRestored \/ \E i \in Instances : Step(i)

----------------------------------------------------------------------------
(* Specifications *)

\* lifespan: the store connection is made or not, then the task is created.
InitWith(instances, may_fail, limit, configs, sizes, unsteady) ==
    /\ TARGETS \in configs
    /\ steps = sizes
    /\ flaky = unsteady
    /\ running = instances
    /\ faults = may_fail
    /\ tick_limit = limit
    /\ db_ok \in {f \in [Instances -> BOOLEAN] :
                    \A i \in Instances \ instances : f[i]}
    /\ now = 0
    /\ crashes = [ip \in AllIPs |-> NoDoc]
    /\ history = {}
    /\ mon = [i \in Instances |-> InitMon(TARGETS)]
    /\ slack = <<>>
    /\ calls = <<>>
    /\ store_up = \A i \in instances : db_ok[i]

\* One instance, a store whose operations succeed.
Init == InitWith({"mon-a"}, FALSE, MaxTicks, TargetConfigs, Steps, AllIPs)
Spec == Init /\ [][Next]_vars

\* One instance, a store whose operations may raise.
InitFaults == InitWith({"mon-a"}, TRUE, MaxTicks, TargetConfigs, Steps, AllIPs)
SpecFaults == InitFaults /\ [][Next]_vars

\* Two instances on one store, both watching node-b and node-c.
InitMulti ==
    InitWith(Instances, FALSE, MaxTicksMulti, {<<NodeB, NodeC>>}, StepsMulti,
             {NodeB.ip})
SpecMulti == InitMulti /\ [][Next]_vars

\* The same two instances with a clock that also reaches the reminders.
InitRace ==
    InitWith(Instances, FALSE, MaxTicksRace, {<<NodeB, NodeC>>}, StepsRace,
             {NodeB.ip})
SpecRace == InitRace /\ [][Next]_vars

\* The steps of instance i's coroutine, its task not being cancelled.
Run(i) == Step(i) /\ mon'[i].pc # "cancelled"

\* One instance, a store whose operations succeed, time that advances while
\* the instance sleeps, and the asyncio event loop, which resumes a
\* coroutine that is ready to run.
InitLive ==
    InitWith({"mon-a"}, FALSE, MaxTicksLive, {<<NodeB, NodeC>>}, StepsLive,
             AllIPs)
SpecLive ==
    /\ InitLive
    /\ [][Next]_vars
    /\ WF_vars(Tick)
    /\ \A i \in Instances : WF_vars(Run(i))

----------------------------------------------------------------------------
(* What the properties below speak of *)

Range(seq) == {seq[k] : k \in 1..Len(seq)}

\* Instance i takes the step that leaves position p.
Leaves(i, p) ==
    /\ mon[i].pc = p
    /\ mon'[i] # mon[i]
    /\ now' = now
    /\ mon'[i].pc # "cancelled"

\* The positions of the per-peer crash/recovery processing.
PerPeerPcs ==
    {"peer", "retry", "process", "delete", "archive", "reread", "mark", "alert"}

\* The messages of a kind the step hands to send_slack_alert.
SentNow(kind) == {m \in Range(slack') : m.kind = kind}

NoPeerAnswered(results) == \A ip \in DOMAIN results : ~results[ip]

----------------------------------------------------------------------------
(* C1 *)

\* C1: with at least one target, a scan that no peer answers leaves
\* was_isolated true and ends the tick; the isolation alert is sent in
\* exactly the steps that take was_isolated from false to true (the first
\* isolated tick after a connected one, no later consecutive one); with no
\* target configured was_isolated is never true.
C1_IsolationAlertOncePerEdge ==
    [][\A i \in running :
        /\ (Leaves(i, "scan") /\ Len(TARGETS) > 0
                /\ NoPeerAnswered(mon'[i].peer_results))
            => mon'[i].was_isolated /\ mon'[i].pc = "top"
        /\ (IsolatedMsg(i) \in Range(slack'))
            <=> (~mon[i].was_isolated /\ mon'[i].was_isolated)
        /\ Len(slack') <= 1
        /\ Len(TARGETS) = 0 => ~mon'[i].was_isolated]_vars

\* An isolation alert in the third tick: the instance was connected or
\* isolated before, and entered isolation on this scan.
C1_Witness ==
    \E i \in running :
        /\ slack = <<IsolatedMsg(i)>>
        /\ mon[i].was_isolated
        /\ mon[i].ticks = 3

----------------------------------------------------------------------------
(* C2 *)

\* The seconds the current target is down at the iteration's current_time,
\* by the document the iteration read.
TimeDown(i) ==
    TimeDownSeconds(mon[i].crash_doc.down_since, mon[i].current_time)

\* C2: one instance.  No crash alert leaves on a tick whose time_down is
\* below 3 minutes; a tick that processes the peer as down with time_down of
\* at least 3 minutes and last_alert_sent_at null sends the alert, without
\* the reminder mark, in that tick; every alert without the mark is such a
\* tick's; and last_alert_sent_at, once set, stays set as long as the
\* record exists, so that no second alert without the mark follows.
C2_FirstAlertExactlyOnce ==
    [][\A i \in running :
        /\ Leaves(i, "reread") =>
            LET doc == crashes[Target(i).ip]
                secs == mon[i].current_time - doc.down_since
            IN  /\ doc # NoDoc
                /\ secs < 180 => mon'[i].pc # "mark"
                /\ (secs >= 180 /\ doc.last_alert_sent_at = None)
                    => mon'[i].pc = "mark"
        /\ Leaves(i, "mark") =>
            /\ mon'[i].pc = "alert"
            /\ mon'[i].msg[1].kind = "CRASH"
            /\ mon'[i].msg[1].reminder = (mon[i].crash_doc.last_alert_sent_at # None)
            /\ crashes'[Target(i).ip].last_alert_sent_at = mon[i].current_time
        /\ Leaves(i, "alert") => slack' = mon[i].msg
        /\ \A m \in SentNow("CRASH") :
            /\ Leaves(i, "alert")
            /\ TimeDown(i) >= 180
            /\ m.mins >= 3
            /\ ~m.reminder => mon[i].crash_doc.last_alert_sent_at = None
        /\ \A ip \in AllIPs :
            (crashes[ip].last_alert_sent_at # None /\ crashes'[ip] # NoDoc)
                => crashes'[ip].last_alert_sent_at # None]_vars

\* The first alert of an incident leaves at exactly 3 minutes of downtime.
C2_Witness ==
    \E m \in Range(slack) :
        /\ m.kind = "CRASH" /\ ~m.reminder /\ m.mins = 3
        /\ crashes[m.ip].last_alert_sent_at - crashes[m.ip].down_since = 180

----------------------------------------------------------------------------
(* C3 *)

\* C3: one instance.  With last_alert_sent_at = T on the record, a tick that
\* processes the peer as down sends a reminder if and only if its
\* current_time is more than 2 hours after T; the reminder carries the mark,
\* and last_alert_sent_at is that tick's current_time afterwards.
C3_ReminderCadence ==
    [][\A i \in running :
        /\ Leaves(i, "reread") =>
            LET doc == crashes[Target(i).ip]
            IN  doc.last_alert_sent_at # None =>
                    (mon'[i].pc = "mark"
                        <=> mon[i].current_time > doc.last_alert_sent_at + 7200)
        /\ (Leaves(i, "mark") /\ mon[i].crash_doc.last_alert_sent_at # None) =>
            /\ mon'[i].msg[1].reminder
            /\ mon'[i].pc = "alert"
            /\ crashes'[Target(i).ip].last_alert_sent_at = mon[i].current_time
        /\ \A m \in SentNow("CRASH") :
            m.reminder =>
                /\ Leaves(i, "alert")
                /\ mon[i].crash_doc.last_alert_sent_at # None
                /\ mon[i].current_time
                     > mon[i].crash_doc.last_alert_sent_at + 7200
                /\ crashes[m.ip].last_alert_sent_at = mon[i].current_time]_vars

\* A reminder has left.
C3_Witness ==
    \E m \in Range(slack) :
        /\ m.kind = "CRASH" /\ m.reminder
        /\ crashes[m.ip].last_alert_sent_at - crashes[m.ip].down_since > 7200

\* A down-tick exactly 2 hours after the last alert: no reminder is due.
C3_BoundaryWitness ==
    \E i \in running :
        /\ mon[i].pc = "reread"
        /\ crashes[Target(i).ip].last_alert_sent_at # None
        /\ mon[i].current_time = crashes[Target(i).ip].last_alert_sent_at + 7200

----------------------------------------------------------------------------
(* C4 *)

\* The seconds between the down_since of the record the iteration found and
\* its recovered_at.
Elapsed(i) == mon[i].recovered_at - mon[i].crash_doc.down_since

C4_BlipWitness ==
    \E i \in running :
        /\ mon[i].pc = "delete"
        /\ Elapsed(i) = 30

----------------------------------------------------------------------------
(* C5 *)

\* History document h is the snapshot of record doc of peer ip, resolved at t.
SnapshotOf(h, doc, ip, t) ==
    /\ h.id = <<ip, t>>
    /\ h.status = "resolved"
    /\ h.recovered_at = t
    /\ h.down_since = doc.down_since
    /\ h.target_name = doc.target_name
    /\ h.witnesses = doc.witnesses
    /\ h.last_alert_sent_at = doc.last_alert_sent_at

\* The step that ends the resolution of a record: the delete_one of a blip,
\* or the insert_one of the archive record.
ResolutionEnds(i) ==
    \/ Leaves(i, "delete") /\ mon'[i].pc # "archive"
    \/ Leaves(i, "archive")

\* C5 as claimed: once an active record is resolved it is absent from the
\* active collection and the history holds its snapshot.
C5_Original ==
    [][\A i \in running :
        ResolutionEnds(i) =>
            /\ crashes'[Target(i).ip] = NoDoc
            /\ \E h \in history' :
                  SnapshotOf(h, mon[i].crash_doc, Target(i).ip,
                             mon[i].recovered_at)]_vars

\* C5 amended: the record an alive peer's iteration found is the active one;
\* once it is resolved it is absent from the active collection; and if it was
\* down for at least 1 minute the history holds its snapshot, with status
\* resolved, the recovered_at of the resolution and the same down_since,
\* target_name and witnesses.
C5_ResolutionRoundTrip ==
    [][\A i \in running :
        /\ Leaves(i, "delete") =>
            /\ mon[i].crash_doc = crashes[Target(i).ip]
            /\ crashes'[Target(i).ip] = NoDoc
        /\ (ResolutionEnds(i) /\ Elapsed(i) >= 60) =>
            /\ crashes'[Target(i).ip] = NoDoc
            /\ \E h \in history' :
                  SnapshotOf(h, mon[i].crash_doc, Target(i).ip,
                             mon[i].recovered_at)]_vars

\* A resolution has written its snapshot of a record that had been alerted.
C5_Witness ==
    \E i \in running :
        /\ mon[i].pc = "alert"
        /\ crashes[Target(i).ip] = NoDoc
        /\ \E h \in history :
            /\ SnapshotOf(h, mon[i].crash_doc, Target(i).ip, mon[i].recovered_at)
            /\ h.last_alert_sent_at # None

----------------------------------------------------------------------------
(* C6 *)

AnotherAnswered(results) == \E ip \in DOMAIN results : results[ip]

\* One step of the end-to-end scenario for node-b; with_another says whether
\* the scenario asks that another target answers the scan.
ScenarioStep(i, with_another) ==
    \* the failed probe leads to the confirmation retries
    /\ (Leaves(i, "scan") /\ NodeB.ip \in TargetIPs(TARGETS)
            /\ ~mon'[i].peer_results[NodeB.ip]
            /\ (with_another => AnotherAnswered(mon'[i].peer_results)))
        => (mon'[i].pc = "peer" /\ mon'[i].idx = 1)
    /\ (mon[i].pc \in PerPeerPcs /\ mon[i].idx \in 1..Len(TARGETS)
            /\ Target(i) = NodeB) =>
        \* the retries failed: the record is created with down_since = t0
        /\ (Leaves(i, "process") /\ ~mon[i].is_alive
                /\ crashes[NodeB.ip] = NoDoc) =>
            /\ crashes'[NodeB.ip].status = "down"
            /\ crashes'[NodeB.ip].down_since = now
        \* still down, now - t0 >= 3 minutes: a crash alert naming node-b
        /\ (Leaves(i, "reread")
                /\ mon[i].current_time - crashes[NodeB.ip].down_since >= 180
                /\ crashes[NodeB.ip].last_alert_sent_at = None)
            => mon'[i].pc = "mark"
        /\ Leaves(i, "mark") =>
            /\ mon'[i].pc = "alert"
            /\ mon'[i].msg[1].kind = "CRASH"
            /\ mon'[i].msg[1].name = "node-b"
            /\ mon'[i].msg[1].mins >= 3
        /\ Leaves(i, "alert") => slack' = mon[i].msg
        \* it answers again: the record is deleted; from 1 minute on, a
        \* recovery alert and a history entry
        /\ (Leaves(i, "process") /\ mon[i].is_alive
                /\ crashes[NodeB.ip] # NoDoc)
            => mon'[i].pc = "delete"
        /\ Leaves(i, "delete") =>
            /\ crashes'[NodeB.ip] = NoDoc
            /\ Elapsed(i) >= 60 => mon'[i].pc = "archive"
        /\ Leaves(i, "archive") =>
            /\ \E h \in history' \ history : h.id[1] = NodeB.ip
            /\ mon'[i].pc = "alert"
            /\ mon'[i].msg[1].kind = "RECOVERY"
            /\ mon'[i].msg[1].name = "node-b"

\* C6 as claimed: the scenario with node-b the only target.
C6_Original ==
    [][\A i \in running :
        TARGETS = <<NodeB>> => ScenarioStep(i, FALSE)]_vars

\* C6 amended: the scenario holds for node-b when another configured target
\* answers the scan of the tick in which node-b's probe fails.  (With node-b
\* the only target its failed probe makes the instance isolated: the tick
\* ends with the isolation alert, and no record is ever created.)
C6_EndToEnd ==
    [][\A i \in running :
        /\ ScenarioStep(i, TRUE)
        /\ TARGETS = <<NodeB>> => crashes'[NodeB.ip] = NoDoc]_vars

\* node-b went down, was alerted on and recovered: the recovery alert leaves
\* and the history holds the entry of the alerted record.
C6_Witness ==
    /\ \E m \in Range(slack) : m.kind = "RECOVERY" /\ m.name = "node-b"
    /\ \E h \in history :
          h.id[1] = NodeB.ip /\ h.last_alert_sent_at = h.down_since + 180

----------------------------------------------------------------------------
(* C7 *)

\* C7: the down_since of a record is the clock of the upsert that created
\* it, and no step that leaves the record in place changes it.
C7_DownSinceSetOnce ==
    [][\A ip \in AllIPs :
        /\ (crashes[ip] # NoDoc /\ crashes'[ip] # NoDoc)
            => crashes'[ip].down_since = crashes[ip].down_since
        /\ (crashes[ip] = NoDoc /\ crashes'[ip] # NoDoc)
            => (crashes'[ip].down_since = now
                /\ crashes'[ip].last_alert_sent_at = None)]_vars

\* A record that both instances have upserted and one has alerted on, later
\* than it was created.
C7_Witness ==
    \E ip \in AllIPs :
        /\ crashes[ip].witnesses = Instances
        /\ crashes[ip].last_alert_sent_at # None
        /\ crashes[ip].down_since < now

----------------------------------------------------------------------------
(* C8 *)

\* C8: every active record whose last_alert_sent_at is set has it at or
\* after its down_since, also with two instances on the store.
C8_LastAlertNotBeforeDownSince ==
    \A ip \in AllIPs :
        (crashes[ip] # NoDoc /\ crashes[ip].last_alert_sent_at # None)
            => crashes[ip].last_alert_sent_at >= crashes[ip].down_since

----------------------------------------------------------------------------
(* C9 *)

\* C9: a scan that finds the instance isolated ends the tick at once and
\* leaves both collections alone; the per-peer processing is only ever at
\* work in a tick whose scan found the instance not isolated; and every
\* change of a record, every HistoryRecord, every retry and every crash,
\* reminder or recovery alert is a step of that processing.
C9_IsolatedTickShortCircuits ==
    [][\A i \in running :
        /\ Leaves(i, "scan") =>
            /\ mon'[i].is_isolated
                 = (Len(TARGETS) > 0 /\ NoPeerAnswered(mon'[i].peer_results))
            /\ mon'[i].is_isolated =>
                /\ mon'[i].pc = "top"
                /\ mon'[i].timer = LOOP_SLEEP_SECONDS
                /\ crashes' = crashes
                /\ history' = history
        /\ mon'[i].pc \in PerPeerPcs => ~mon'[i].is_isolated
        /\ (\/ crashes' # crashes
            \/ history' # history
            \/ SentNow("CRASH") # {}
            \/ SentNow("RECOVERY") # {}
            \/ Leaves(i, "retry"))
            => (mon[i].pc \in PerPeerPcs /\ ~mon[i].is_isolated
                /\ mon'[i] # mon[i])]_vars

\* An isolated tick has just ended while a record is active and not yet
\* alerted on, although down for 3 minutes.
C9_Witness ==
    \E i \in running :
        /\ mon[i].is_isolated
        /\ mon[i].pc = "top"
        /\ mon[i].timer = LOOP_SLEEP_SECONDS
        /\ \E ip \in AllIPs :
            /\ crashes[ip] # NoDoc
            /\ crashes[ip].last_alert_sent_at = None
            /\ now - crashes[ip].down_since >= 180

----------------------------------------------------------------------------
(* C10 *)

\* C10: the reconnection alert is sent in exactly the steps that take
\* was_isolated from true to false; a scan that some peer answers while
\* was_isolated is true is such a step, and goes on to the per-peer
\* processing from the first target; that processing takes the targets one
\* by one and ends the tick only after the last.
C10_Reconnection ==
    [][\A i \in running :
        /\ (ReconnectedMsg(i) \in Range(slack'))
            <=> (mon[i].was_isolated /\ ~mon'[i].was_isolated)
        /\ (Leaves(i, "scan") /\ mon[i].was_isolated
                /\ ~NoPeerAnswered(mon'[i].peer_results)) =>
            /\ slack' = <<ReconnectedMsg(i)>>
            /\ ~mon'[i].was_isolated
            /\ mon'[i].pc = "peer"
            /\ mon'[i].idx = 1
        /\ mon'[i].idx # mon[i].idx =>
            \/ Leaves(i, "scan") /\ mon'[i].idx = 1
            \/ mon[i].idx <= Len(TARGETS) /\ mon'[i].idx = mon[i].idx + 1
            \/ mon[i].idx = Len(TARGETS) + 1 /\ mon'[i].idx = 0
        /\ (mon[i].pc \in PerPeerPcs /\ mon'[i].pc = "top")
            => mon[i].idx = Len(TARGETS) + 1]_vars

\* The reconnection alert has left and the first target is up for processing.
C10_Witness ==
    \E i \in running :
        /\ slack = <<ReconnectedMsg(i)>>
        /\ mon[i].pc = "peer"
        /\ mon[i].idx = 1
        /\ Len(TARGETS) = 2

----------------------------------------------------------------------------
(* C11 *)

\* The ping_peer calls among the calls of the step.
PingsNow == SelectSeq(calls', LAMBDA c : c.fn = "ping_peer")

\* C11: a target that answered the scan is taken as alive without another
\* probe or connectivity check; one that did not is retried if and only if
\* the connectivity re-check answers online; the retries are 1 to 3 probes
\* of that target, all but the last failed, and the last one's answer
\* is is_alive; is_alive false means that all 3 were made; the target is
\* processed as down only with its scan probe failed and 3 retries made, and
\* a target processed as alive is not upserted; no probe is made anywhere
\* but in the scan and the retries.
C11_ConfirmationRetry ==
    [][\A i \in running :
        /\ (Leaves(i, "peer") /\ mon[i].idx <= Len(TARGETS)) =>
            IF mon[i].peer_results[Target(i).ip]
            THEN /\ calls' = <<>>
                 /\ mon'[i].pc = "process"
                 /\ mon'[i].is_alive
                 /\ mon'[i].attempt = 0
            ELSE /\ Len(calls') = 1
                 /\ calls'[1].fn = "check_external_connectivity"
                 /\ mon'[i].pc = "retry" <=> calls'[1].ret
        /\ Leaves(i, "retry") =>
            /\ ~mon[i].peer_results[Target(i).ip]
            /\ calls' = PingsNow
            /\ Len(calls') \in 1..MAX_RETRIES
            /\ \A k \in 1..Len(calls') :
                /\ calls'[k].ip = Target(i).ip
                /\ k < Len(calls') => ~calls'[k].ret
            /\ mon'[i].is_alive = calls'[Len(calls')].ret
            /\ mon'[i].attempt = Len(calls')
            /\ ~mon'[i].is_alive => Len(calls') = MAX_RETRIES
            /\ mon'[i].pc = "process"
            /\ mon'[i].idx = mon[i].idx
            /\ mon'[i].timer = INITIAL_BACKOFF_SECONDS * Len(calls')
        /\ (mon[i].pc = "process" /\ ~mon[i].is_alive) =>
            /\ ~mon[i].peer_results[Target(i).ip]
            /\ mon[i].attempt = MAX_RETRIES
        /\ (Leaves(i, "process") /\ mon[i].is_alive) =>
            /\ crashes'[Target(i).ip] = crashes[Target(i).ip]
            /\ mon'[i].pc \in {"peer", "delete"}
        /\ (Leaves(i, "process") /\ crashes'[Target(i).ip] # crashes[Target(i).ip])
            => ~mon[i].is_alive
        /\ PingsNow # <<>> => (Leaves(i, "scan") \/ Leaves(i, "retry"))]_vars

\* The second retry probe was answered: the retries ended there, after two
\* backoffs, and the target is up for processing as alive.
C11_Witness ==
    \E i \in running :
        /\ mon[i].pc = "process"
        /\ mon[i].is_alive
        /\ mon[i].timer = 2 * INITIAL_BACKOFF_SECONDS
        /\ calls = <<Pinged(Target(i).ip, FALSE), Pinged(Target(i).ip, TRUE)>>

----------------------------------------------------------------------------
(* C12 *)

\* The positions from which a store operation is made.
StorePcs == {"process", "delete", "archive", "reread", "mark"}

\* C12: a step in which an error of one target's processing is logged is a
\* step of a store operation for that target, sends no alert, and leaves
\* the coroutine at the head of the next target's iteration, awake, with
\* the loop's own state (was_isolated, the scan's results) as it was; the
\* head of a target's iteration always leads into that target's processing
\* or on to the next target; and the per-peer processing is left only after
\* the last target, for the sleep that ends the tick.
C12_ErrorContained ==
    [][\A i \in running :
        /\ \A c \in Range(calls') :
            c.fn = "logger.error" =>
                /\ mon[i].pc \in StorePcs
                /\ c.ip = Target(i).ip
                /\ mon'[i].pc = "peer"
                /\ mon'[i].idx = mon[i].idx + 1
                /\ mon'[i].timer = 0
                /\ mon'[i].was_isolated = mon[i].was_isolated
                /\ mon'[i].peer_results = mon[i].peer_results
                /\ mon'[i].ticks = mon[i].ticks
                /\ slack' = <<>>
        /\ (Leaves(i, "peer") /\ mon[i].idx <= Len(TARGETS)) =>
            \/ mon'[i].pc \in {"process", "retry"} /\ mon'[i].idx = mon[i].idx
            \/ mon'[i].pc = "peer" /\ mon'[i].idx = mon[i].idx + 1
        /\ (mon[i].pc \in PerPeerPcs /\ mon'[i].pc \notin PerPeerPcs
                /\ mon'[i].pc # "cancelled") =>
            /\ mon[i].idx = Len(TARGETS) + 1
            /\ mon'[i].pc = "top"
            /\ mon'[i].timer = LOOP_SLEEP_SECONDS
        /\ mon'[i].pc \in PerPeerPcs \cup {"warmup", "top", "scan", "cancelled"}]_vars

\* A store operation for the first of two targets has raised in the second
\* tick: the second target is up next.
C12_Witness ==
    \E i \in running :
        /\ Len(TARGETS) = 2
        /\ calls = <<Logged(TARGETS[1].ip)>>
        /\ mon[i].pc = "peer"
        /\ mon[i].idx = 2
        /\ mon[i].ticks = 2

----------------------------------------------------------------------------
(* C13 *)

\* C13: two instances.  While a record exists its witnesses only grow; the
\* step that processes a target as down leaves the instance among the
\* witnesses of the target's record, with all that were there; the document
\* an alert is built from is the record as the re-read found it, and every
\* crash alert or reminder lists that document's witnesses.
C13_WitnessesAppendOnly ==
    [][/\ \A ip \in AllIPs :
            (crashes[ip] # NoDoc /\ crashes'[ip] # NoDoc)
                => crashes[ip].witnesses \subseteq crashes'[ip].witnesses
       /\ \A i \in running :
            /\ (Leaves(i, "process") /\ ~mon[i].is_alive) =>
                /\ crashes'[Target(i).ip] # NoDoc
                /\ i \in crashes'[Target(i).ip].witnesses
                /\ crashes[Target(i).ip].witnesses
                     \subseteq crashes'[Target(i).ip].witnesses
            /\ (Leaves(i, "reread") /\ mon'[i].pc = "mark") =>
                mon'[i].crash_doc = crashes[Target(i).ip]
            /\ Leaves(i, "mark") =>
                /\ mon'[i].msg[1].kind = "CRASH"
                /\ mon'[i].msg[1].witnesses = mon[i].crash_doc.witnesses
                /\ mon'[i].crash_doc = mon[i].crash_doc
       /\ \A m \in SentNow("CRASH") :
            \E i \in running :
                /\ Leaves(i, "alert")
                /\ m.ip = Target(i).ip
                /\ m.witnesses = mon[i].crash_doc.witnesses]_vars

\* A crash alert that lists both instances, sent while the record holds both.
C13_Witness ==
    \E m \in Range(slack) :
        /\ m.kind = "CRASH"
        /\ m.witnesses = Instances
        /\ crashes[m.ip].witnesses = Instances

----------------------------------------------------------------------------
(* C14 *)

\* The step is an iteration of the while loop that finds no store and only
\* sleeps: no probe, no connectivity check, no store operation, no alert.
PollsAgain(i) ==
    /\ Leaves(i, "top")
    /\ mon'[i].pc = "top"
    /\ mon'[i].timer = LOOP_SLEEP_SECONDS
    /\ calls' = <<>>
    /\ slack' = <<>>
    /\ crashes' = crashes
    /\ history' = history

\* C14: an iteration that begins while the MongoDB server cannot be reached
\* only polls again, and one that begins once the server can be reached
\* goes on to the connectivity check and the scan.  (The first half holds;
\* the second does not: active_collection is assigned in lifespan alone, so
\* an instance that started without the store polls forever.)
C14_ResumesWhenRestored ==
    [][\A i \in running :
        Leaves(i, "top") =>
            /\ ~store_up => PollsAgain(i)
            /\ store_up => ~PollsAgain(i)]_vars

\* The half of C14 that holds: an instance without the store only ever polls.
C14_PausedWhileUnavailable ==
    [][\A i \in running :
        (~db_ok[i] /\ mon'[i] # mon[i] /\ now' = now) =>
            \/ mon[i].pc = "warmup" /\ mon'[i].pc = "top"
            \/ PollsAgain(i)
            \/ mon'[i].pc = "cancelled"]_vars

----------------------------------------------------------------------------
(* C15 *)

\* C15: when the connectivity re-check for a target that failed the scan
\* answers offline, the step makes no probe, leaves both collections as
\* they are, sends nothing, and moves on to the next target with no retry
\* made; the targets are taken in order, so the target is not come back to
\* in that tick.
C15_RecheckAborts ==
    [][\A i \in running :
        /\ (mon[i].pc = "peer" /\ calls' = <<Checked(FALSE)>>) =>
            /\ mon[i].idx \in 1..Len(TARGETS)
            /\ ~mon[i].peer_results[Target(i).ip]
            /\ PingsNow = <<>>
            /\ crashes' = crashes
            /\ history' = history
            /\ slack' = <<>>
            /\ mon'[i].pc = "peer"
            /\ mon'[i].idx = mon[i].idx + 1
            /\ mon'[i].attempt = 0
            /\ mon'[i].timer = 0
        /\ (mon[i].pc \in PerPeerPcs /\ mon'[i].pc \in PerPeerPcs)
            => mon'[i].idx >= mon[i].idx]_vars

\* The re-check for the first of two targets answered offline while the
\* target's record is active: the record is as it was, the second target is
\* up next.
C15_Witness ==
    \E i \in running :
        /\ Len(TARGETS) = 2
        /\ calls = <<Checked(FALSE)>>
        /\ mon[i].pc = "peer"
        /\ mon[i].idx = 2
        /\ crashes[TARGETS[1].ip] # NoDoc
        /\ crashes[TARGETS[1].ip].last_alert_sent_at = None
        /\ now - crashes[TARGETS[1].ip].down_since >= 180

----------------------------------------------------------------------------
(* C16 *)

\* C16: one instance, store operations may raise.  The step of the alert
\* update either raises, and then the iteration ends there with no message
\* to send, or leaves the iteration's current_time in the record's
\* last_alert_sent_at and only then the message to dispatch; an iteration
\* about to dispatch a crash alert or reminder has its current_time in the
\* record; and every crash alert or reminder sent is such a dispatch.
C16_WriteBeforeDispatch ==
    [][\A i \in running :
        /\ Leaves(i, "mark") =>
            IF \E c \in Range(calls') : c.fn = "logger.error"
            THEN /\ mon'[i].pc = "peer"
                 /\ mon'[i].msg = <<>>
                 /\ slack' = <<>>
                 /\ crashes' = crashes
            ELSE /\ mon'[i].pc = "alert"
                 /\ mon'[i].msg # <<>>
                 /\ slack' = <<>>
                 /\ crashes'[Target(i).ip].last_alert_sent_at
                      = mon[i].current_time
        /\ (mon'[i].pc = "alert" /\ mon'[i].msg[1].kind = "CRASH") =>
            /\ mon[i].pc \in {"mark", "alert"}
            /\ crashes'[Target(i).ip].last_alert_sent_at = mon'[i].current_time
        /\ \A m \in SentNow("CRASH") :
            /\ Leaves(i, "alert")
            /\ mon[i].msg = <<m>>
            /\ crashes[m.ip].last_alert_sent_at = mon[i].current_time
            /\ crashes'[m.ip] = crashes[m.ip]]_vars

\* A reminder is out, and the record carries its time.
C16_Witness ==
    \E m \in Range(slack) :
        /\ m.kind = "CRASH"
        /\ m.reminder
        /\ crashes[m.ip].last_alert_sent_at = now

\* A store operation of the iteration for a record due for its first alert
\* has raised: no alert, and the record still without last_alert_sent_at.
C16_FailedWriteWitness ==
    \E i \in running :
        /\ mon[i].pc = "peer"
        /\ mon[i].idx = 2
        /\ calls = <<Logged(TARGETS[1].ip)>>
        /\ slack = <<>>
        /\ crashes[TARGETS[1].ip] # NoDoc
        /\ i \in crashes[TARGETS[1].ip].witnesses
        /\ crashes[TARGETS[1].ip].last_alert_sent_at = None
        /\ now - crashes[TARGETS[1].ip].down_since = 180
        /\ mon[i].ticks = 2

----------------------------------------------------------------------------
(* C17 *)

\* The step is the cancellation of instance i.
Cancelled(i) == mon[i].pc # "cancelled" /\ mon'[i].pc = "cancelled"

\* The iteration for the current target has made none of its store
\* operations yet: it holds no document and has read no clock.
NothingBegun(i) ==
    /\ mon[i].crash_doc = NoDoc
    /\ mon[i].current_time = None
    /\ mon[i].recovered_at = None

\* C17: one instance.  Cancellation changes neither collection and ends the
\* coroutine for good.  It finds the coroutine outside the per-peer loop, or
\* in an iteration that has made none of its store operations, or in the
\* dispatch of an alert, with all of the iteration's store operations made:
\* for a crash alert the record carries the iteration's current_time, for a
\* recovery alert the record is deleted and its snapshot is in the history.
\* In particular no record that was down for at least 1 minute is, at the
\* cancellation, deleted by the iteration without its HistoryRecord.
C17_CancellationNeedsNoRollback ==
    [][\A i \in running :
        /\ Cancelled(i) =>
            /\ crashes' = crashes
            /\ history' = history
            /\ slack' = <<>>
            /\ \/ mon[i].pc \in {"warmup", "top", "scan"}
               \/ mon[i].pc \in {"peer", "retry", "process"} /\ NothingBegun(i)
               \/ /\ mon[i].pc = "alert"
                  /\ mon[i].msg[1].kind = "CRASH" =>
                        crashes[Target(i).ip].last_alert_sent_at
                            = mon[i].current_time
                  /\ mon[i].msg[1].kind = "RECOVERY" =>
                        /\ crashes[Target(i).ip] = NoDoc
                        /\ \E h \in history :
                              SnapshotOf(h, mon[i].crash_doc, Target(i).ip,
                                         mon[i].recovered_at)
            /\ (mon[i].recovered_at # None /\ Elapsed(i) >= 60
                    /\ crashes[Target(i).ip] = NoDoc) =>
                \E h \in history :
                    SnapshotOf(h, mon[i].crash_doc, Target(i).ip,
                               mon[i].recovered_at)
        /\ mon[i].pc = "cancelled" => mon'[i] = mon[i]]_vars

\* Cancelled in the dispatch of a recovery alert: the record is deleted and
\* the history holds its snapshot.
C17_Witness ==
    \E i \in running :
        /\ mon[i].pc = "cancelled"
        /\ mon[i].msg # <<>>
        /\ mon[i].msg[1].kind = "RECOVERY"
        /\ crashes[Target(i).ip] = NoDoc
        /\ \E h \in history :
              SnapshotOf(h, mon[i].crash_doc, Target(i).ip, mon[i].recovered_at)

----------------------------------------------------------------------------
(* C18 *)

\* Instance j has written its current_time to the record of peer ip, which
\* is still the record it re-read, and is in the dispatch of its alert.
WroteFor(j, ip) ==
    /\ mon[j].pc = "alert"
    /\ mon[j].msg[1].kind = "CRASH"
    /\ mon[j].msg[1].ip = ip
    /\ crashes[ip] # NoDoc
    /\ crashes[ip].down_since = mon[j].crash_doc.down_since

\* C18 as claimed: if A's write has completed when B re-reads the record, B
\* goes on to an alert only if its current_time is more than 2 hours after
\* A's timestamp.
C18_Original ==
    [][\A i \in running : \A j \in running \ {i} :
        (Leaves(i, "reread") /\ WroteFor(j, Target(i).ip)
            /\ mon'[i].pc = "mark")
        => mon[i].current_time
             > mon[j].current_time + REMINDER_INTERVAL_HOURS * 3600]_vars

\* C18 amended: two instances.  An instance whose re-read finds
\* last_alert_sent_at set goes on to an alert only if its current_time is
\* more than 2 hours after the value it finds, and the alert is a reminder;
\* the value found is A's timestamp if A's write was the last one to the
\* record, but a write made later with an earlier current_time replaces it.
\* A crash alert without the reminder mark is sent only by an instance
\* whose re-read found last_alert_sent_at null, and last_alert_sent_at stays
\* set as long as the record exists: two such alerts for one record mean
\* that both instances re-read it before either wrote.
C18_DuplicatesInRaceWindow ==
    [][/\ \A i \in running :
            /\ (Leaves(i, "reread") /\ crashes[Target(i).ip] # NoDoc
                    /\ crashes[Target(i).ip].last_alert_sent_at # None
                    /\ mon'[i].pc = "mark") =>
                /\ mon[i].current_time
                     > crashes[Target(i).ip].last_alert_sent_at
                         + REMINDER_INTERVAL_HOURS * 3600
                /\ mon'[i].crash_doc.last_alert_sent_at # None
            /\ \A j \in running \ {i} :
                (Leaves(i, "reread") /\ WroteFor(j, Target(i).ip)
                    /\ crashes[Target(i).ip].last_alert_sent_at
                         = mon[j].current_time
                    /\ mon'[i].pc = "mark")
                => mon[i].current_time
                     > mon[j].current_time + REMINDER_INTERVAL_HOURS * 3600
            /\ (Leaves(i, "reread") /\ mon'[i].pc = "mark") =>
                mon'[i].crash_doc = crashes[Target(i).ip]
            /\ Leaves(i, "mark") =>
                mon'[i].msg[1].reminder
                    = (mon[i].crash_doc.last_alert_sent_at # None)
       /\ \A m \in SentNow("CRASH") :
            ~m.reminder =>
                \E i \in running :
                    /\ Leaves(i, "alert")
                    /\ mon[i].msg = <<m>>
                    /\ mon[i].crash_doc.last_alert_sent_at = None
       /\ \A ip \in AllIPs :
            (crashes[ip].last_alert_sent_at # None /\ crashes'[ip] # NoDoc
                /\ crashes'[ip].down_since = crashes[ip].down_since)
            => crashes'[ip].last_alert_sent_at # None]_vars

\* The race window: both instances are in the dispatch of an alert without
\* the reminder mark for the same record.
C18_Witness ==
    \E i \in running : \E j \in running \ {i} :
        /\ WroteFor(i, NodeB.ip)
        /\ WroteFor(j, NodeB.ip)
        /\ ~mon[i].msg[1].reminder
        /\ ~mon[j].msg[1].reminder
        /\ mon[i].crash_doc.down_since = mon[j].crash_doc.down_since

\* A reminder in the dispatch, two instances on the store.
C18_ReminderWitness ==
    \E i \in running :
        /\ WroteFor(i, NodeB.ip)
        /\ mon[i].msg[1].reminder
        /\ crashes[NodeB.ip].witnesses = Instances

----------------------------------------------------------------------------
(* C19 *)

\* The record of peer ip carries the mark of a crash alert.
Alerted(doc) == doc # NoDoc /\ doc.last_alert_sent_at # None

\* C19: one instance, no store errors.  A crash alert sent for a peer is
\* marked in its record, at least 3 minutes after down_since; when the peer
\* is then processed as alive, the resolution of such a record deletes it,
\* passes the noise filter, writes its snapshot to the history and hands a
\* recovery alert to the dispatch, which sends it.
C19_AlertedIncidentRecovers ==
    [][/\ \A m \in SentNow("CRASH") : Alerted(crashes'[m.ip])
       /\ \A ip \in AllIPs :
            Alerted(crashes'[ip]) =>
                /\ crashes'[ip].last_alert_sent_at - crashes'[ip].down_since
                     >= CONFIRMATION_DELAY_MINUTES * 60
                /\ crashes'[ip].last_alert_sent_at <= now'
       /\ \A i \in running :
            /\ (Leaves(i, "process") /\ mon[i].is_alive
                    /\ Alerted(crashes[Target(i).ip])) =>
                /\ mon'[i].pc = "delete"
                /\ mon'[i].crash_doc = crashes[Target(i).ip]
            /\ (Leaves(i, "delete") /\ Alerted(mon[i].crash_doc)) =>
                /\ crashes'[Target(i).ip] = NoDoc
                /\ mon'[i].pc = "archive"
            /\ (Leaves(i, "archive") /\ Alerted(mon[i].crash_doc)) =>
                /\ \E h \in history' \ history :
                     SnapshotOf(h, mon[i].crash_doc, Target(i).ip,
                                mon[i].recovered_at)
                /\ mon'[i].pc = "alert"
                /\ mon'[i].msg = <<RecoveryMsg(Target(i), Duration(i))>>
            /\ (Leaves(i, "alert") /\ mon[i].msg[1].kind = "RECOVERY") =>
                slack' = mon[i].msg]_vars

\* The recovery alert of an incident that a crash alert was sent for has
\* just been sent, and its history entry is written.
C19_Witness ==
    \E i \in running : \E h \in history :
        /\ slack = <<RecoveryMsg(NodeB, DurationMins(h.down_since, now))>>
        /\ h.id = <<NodeB.ip, now>>
        /\ h.last_alert_sent_at # None
        /\ crashes[NodeB.ip] = NoDoc
        /\ ~faults

----------------------------------------------------------------------------
(* C20 *)

\* The ticks, one after the other, that the confirmation delay takes at
\* most: a tick in which the peer stays down lasts the retries' backoff and
\* the loop sleep at least.
TicksToConfirm ==
    (CONFIRMATION_DELAY_MINUTES * 60)
        \div (INITIAL_BACKOFF_SECONDS * MAX_RETRIES + LOOP_SLEEP_SECONDS) + 1

\* Instance i is at the top of its loop with its store connected, node-b and
\* another peer among its targets, no crash alert marked for node-b yet, and
\* the ticks ahead of it that the confirmation delay takes.
Watching(i) ==
    /\ i \in running
    /\ db_ok[i]
    /\ mon[i].pc = "top"
    /\ mon[i].ticks + TicksToConfirm <= tick_limit
    /\ {NodeB.ip, NodeC.ip} \subseteq TargetIPs(TARGETS)
    /\ ~Alerted(crashes[NodeB.ip])

\* The last step had an answer outside the claim's assumptions: the
\* connectivity check failed, node-b answered a probe, or node-c did not.
Unsteady ==
    \E k \in 1..Len(calls) :
        \/ calls[k] = Checked(FALSE)
        \/ calls[k] = Pinged(NodeB.ip, TRUE)
        \/ calls[k] = Pinged(NodeC.ip, FALSE)

\* A crash alert for the peer has just been sent, its record being there.
CrashSentFor(target) ==
    /\ crashes[target.ip] # NoDoc
    /\ \E m \in Range(slack) :
        /\ m.kind = "CRASH"
        /\ m.name = target.name
        /\ m.ip = target.ip

\* C20: under fair scheduling and advancing time, from a tick on from which
\* node-b fails every probe, the connectivity checks succeed and node-c
\* keeps answering, the store being connected and error-free, a record for
\* node-b is there and a crash alert for node-b is eventually sent (or the
\* task is cancelled).
C20_CrashAlertEventually ==
    \A i \in Instances :
        Watching(i) ~> (CrashSentFor(NodeB) \/ Unsteady
                            \/ mon[i].pc = "cancelled")

\* The crash alert at the end of such a run: node-b's first alert, sent in
\* the last of the ticks the confirmation delay takes, exactly 3 minutes
\* after down_since, by an instance that has never been isolated.
C20_Witness ==
    /\ CrashSentFor(NodeB)
    /\ ~slack[1].reminder
    /\ slack[1].mins = CONFIRMATION_DELAY_MINUTES
    /\ now - crashes[NodeB.ip].down_since = CONFIRMATION_DELAY_MINUTES * 60
    /\ crashes[NodeB.ip].last_alert_sent_at = now
    /\ mon["mon-a"].ticks = TicksToConfirm
    /\ ~mon["mon-a"].was_isolated
    /\ history = {}

====
